---- MODULE Spec2Model ----
(***************************************************************************)
(* The voice-chat turn controller (the VoiceChat React component) as a     *)
(* state machine.  One action per event handler or asynchronous            *)
(* continuation of the component; the browser's speech recognition,        *)
(* speech synthesis and fetch are the environment that fires them.         *)
(*                                                                         *)
(* A recognition session, the sendMessage activation its result starts and *)
(* the utterance that activation speaks share one index k in Turns.        *)
(* Message timestamps (new Date()) are not modelled.                       *)
(*                                                                         *)
(* The two API routes are a second state machine over the variable srv:    *)
(* one execution of the /api/voice-chat handler, from the parsing of the   *)
(* request to the response, with Wikipedia and the completion API as its   *)
(* environment.  The component's specifications leave srv idle and the     *)
(* routes' specification leaves the component in its initial state.        *)
(***************************************************************************)
EXTENDS Integers, Sequences, FiniteSets, TLC

\* Number of recognition sessions (startListening calls that reach
\* `new SpeechRecognition()`) the model follows.
MaxTurns == 2

Turns == 1..MaxTurns

VARIABLES
    messages,        \* useState<Message[]>: sequence of [role, text]
    isListening,     \* useState<boolean>
    isProcessing,    \* useState<boolean>
    isSearching,     \* useState<boolean>
    isSpeaking,      \* useState<boolean>
    error,           \* useState<string>, as a tuple of its parts; <<>> is ''
    recognitionRef,  \* useRef<SpeechRecognition | null>: session index, 0 is null
    rec,             \* browser: each SpeechRecognition object, its lifecycle position
                     \* and the transcript or error code of the event it delivered
    stopReq,         \* browser: sessions asked to stop() that have not answered yet
    send,            \* position of each sendMessage activation
    utt,             \* browser: lifecycle position of each SpeechSynthesisUtterance
    recSupported,    \* window.SpeechRecognition || window.webkitSpeechRecognition
    synthSupported,  \* 'speechSynthesis' in window
    srv,             \* server: one execution of the /api/voice-chat handler, with
                     \* the /api/search-wikipedia handler it calls; prev remembers
                     \* the completion request of the execution before it
    timerFor         \* the session whose onstart armed the listening timer of
                     \* the useEffect; 0 when no timer is armed

\* The component's variables.
cvars == <<messages, isListening, isProcessing, isSearching, isSpeaking, error,
           recognitionRef, rec, stopReq, send, utt, recSupported, synthSupported,
           timerFor>>

vars == <<messages, isListening, isProcessing, isSearching, isSpeaking, error,
          recognitionRef, rec, stopReq, send, utt, recSupported, synthSupported, srv, timerFor>>

----------------------------------------------------------------------------
\* Texts are sequences of characters.

WS == {" "}

\* What the recogniser can hand to onresult as event.results[0][0].transcript.
Transcripts == { <<>>, <<" ", " ">>, <<" ", "a">> }

\* data.choices?.[0]?.message?.content of a successful payload; present is
\* false when any link of the optional chain is undefined.
Contents ==
    { [present |-> FALSE, text |-> <<>>],
      [present |-> TRUE, text |-> <<>>],
      [present |-> TRUE, text |-> <<"r">>] }

NoReplyReceived ==
    <<"N","o"," ","r","e","p","l","y"," ","r","e","c","e","i","v","e","d">>

\* String.prototype.trim: strip leading and trailing white space.
RECURSIVE TrimLeft(_)
TrimLeft(s) ==
    IF s = <<>> THEN <<>>
    ELSE IF Head(s) \in WS THEN TrimLeft(Tail(s)) ELSE s

RECURSIVE TrimRight(_)
TrimRight(s) ==
    IF s = <<>> THEN <<>>
    ELSE IF s[Len(s)] \in WS THEN TrimRight(SubSeq(s, 1, Len(s) - 1)) ELSE s

Trim(s) == TrimRight(TrimLeft(s))

\* JavaScript truthiness of a string.
Truthy(s) == s # <<>>

----------------------------------------------------------------------------
\* Error texts shown to the user, as tuples of their parts.

NoError == <<>>
ErrRecUnsupported == <<"Speech recognition not supported in this browser. Please use Chrome, Edge, or Safari.">>
ErrTimeout == <<"Listening timed out. Please try again.">>
ErrRecognition(code) == <<"Speech recognition error: ", code, ". Please try again.">>
ErrHttp(status) == <<"HTTP ", ToString(status), ": Failed to process the message">>
ErrSendDefault == <<"Error sending message. Please try again.">>
ErrTts == <<"Text-to-speech failed. Please try again.">>
ErrTtsUnsupported == <<"Text-to-speech not supported in this browser.">>

\* SpeechRecognitionErrorEvent.error codes the model draws from.
RecErrorCodes == { "no-speech", "not-allowed" }

\* Non-ok statuses /api/voice-chat answers with.
FailStatuses == { 503 }

\* error fields of a JSON body; <<>> is a missing or empty field.
BodyErrors == { <<>>, <<"Failed to get AI response">> }

\* err.message of a rejected fetch or of a res.json() that threw.
ThrownMessages == { <<>>, <<"Failed to fetch">> }

----------------------------------------------------------------------------
\* Messages

UserMessage(t) == [role |-> "user", text |-> t]

AssistantMessage(t) == [role |-> "assistant", text |-> t]

----------------------------------------------------------------------------
\* The browser's speech synthesis queue.

\* window.speechSynthesis.speaking: an utterance has begun and not finished.
SynthSpeaking(u) == \E k \in Turns : u[k] = "speaking"

\* window.speechSynthesis.cancel(): every queued or spoken utterance is
\* removed; the browser may still deliver an end or error event for it.
Cancel(u) ==
    [k \in Turns |-> IF u[k] \in {"pending", "speaking"} THEN "cancelled" ELSE u[k]]

\* A recognition object that has not been created yet.
FreeTurns == { k \in Turns : rec[k].st = "none" }

NewTurn == CHOOSE k \in FreeTurns : \A j \in FreeTurns : k <= j

\* The useEffect on [isListening]: a 10 s timer is armed exactly while
\* isListening is true (armed on the render that made it true, cleared by the
\* cleanup on the render that made it false).  timerFor names the session
\* whose onstart made it true; an onstart that finds isListening true causes
\* no render and arms nothing.
TimerArmed == isListening

----------------------------------------------------------------------------
\* No request is being handled.
SrvIdle ==
    [ pc |-> "idle",
      body |-> [kind |-> "empty", hasMessage |-> FALSE, message |-> <<>>],
      message |-> <<>>,
      needs |-> FALSE,
      calls |-> <<>>,
      searchOut |-> [kind |-> "none", status |-> 0, hits |-> <<>>],
      summaryOut |-> [kind |-> "none", status |-> 0, title |-> "", extract |-> "", page |-> ""],
      route |-> [status |-> 0, error |-> "", results |-> <<>>],
      searchResult |-> <<>>,
      request |-> [model |-> "", messages |-> <<>>],
      up |-> [status |-> 0, body |-> ""],
      resp |-> [status |-> 0, error |-> "", payload |-> ""],
      prev |-> [message |-> <<>>, searchResult |-> <<>>,
                request |-> [model |-> "", messages |-> <<>>]] ]

Init ==
    /\ srv = SrvIdle
    /\ timerFor = 0
    /\ messages = <<>>
    /\ isListening = FALSE
    /\ isProcessing = FALSE
    /\ isSearching = FALSE
    /\ isSpeaking = FALSE
    /\ error = NoError
    /\ recognitionRef = 0
    /\ rec = [k \in Turns |-> [st |-> "none", transcript |-> <<>>, code |-> ""]]
    /\ stopReq = {}
    /\ send = [k \in Turns |-> [pc |-> "none", status |-> 0]]
    /\ utt = [k \in Turns |-> "none"]
    /\ recSupported \in BOOLEAN
    /\ synthSupported \in BOOLEAN

----------------------------------------------------------------------------
\* startListening without the playback check of lines 97-101.
StartListeningNoCancel ==
    IF ~recSupported
    THEN /\ error' = ErrRecUnsupported
         /\ UNCHANGED <<messages, isListening, isProcessing, isSearching, isSpeaking,
                        recognitionRef, rec, stopReq, send, utt,
                        recSupported, synthSupported, srv, timerFor>>
    ELSE /\ FreeTurns # {}
         /\ error' = NoError
         /\ rec' = [rec EXCEPT ![NewTurn].st = "starting"]
         /\ recognitionRef' = NewTurn
         /\ UNCHANGED <<messages, isListening, isProcessing, isSearching, isSpeaking,
                        stopReq, send, utt, recSupported, synthSupported, srv, timerFor>>

\* startListening, lines 88-139.  The handlers it installs are the Rec*
\* actions below; onstart is not fired by start() itself.
StartListening ==
    IF ~recSupported
    THEN /\ error' = ErrRecUnsupported
         /\ UNCHANGED <<messages, isListening, isProcessing, isSearching, isSpeaking,
                        recognitionRef, rec, stopReq, send, utt,
                        recSupported, synthSupported, srv, timerFor>>
    ELSE /\ FreeTurns # {}
         /\ error' = NoError
         /\ IF synthSupported /\ SynthSpeaking(utt)
            THEN /\ utt' = Cancel(utt)
                 /\ isSpeaking' = FALSE
            ELSE UNCHANGED <<utt, isSpeaking>>
         /\ rec' = [rec EXCEPT ![NewTurn].st = "starting"]
         /\ recognitionRef' = NewTurn
         /\ UNCHANGED <<messages, isListening, isProcessing, isSearching,
                        stopReq, send, recSupported, synthSupported, srv, timerFor>>

\* recognition.onstart, lines 109-112.
RecOnStart(k) ==
    /\ rec[k].st = "starting"
    /\ rec' = [rec EXCEPT ![k].st = "active"]
    /\ isListening' = TRUE
    /\ timerFor' = (IF isListening THEN timerFor ELSE k)
    /\ error' = NoError
    /\ UNCHANGED <<messages, isProcessing, isSearching, isSpeaking, recognitionRef,
                   stopReq, send, utt, recSupported, synthSupported, srv>>

\* onresult testing the transcript without trim().
RecOnResultNoTrim(k, transcript) ==
    /\ rec[k].st = "active"
    /\ rec' = [rec EXCEPT ![k] = [st |-> "resulted", transcript |-> transcript, code |-> ""]]
    /\ IF Truthy(transcript)
       THEN /\ messages' = Append(messages, UserMessage(transcript))
            /\ isProcessing' = TRUE
            /\ isSearching' = TRUE
            /\ send' = [send EXCEPT ![k].pc = "fetch"]
       ELSE UNCHANGED <<messages, isProcessing, isSearching, send>>
    /\ stopReq' = stopReq \ {k}
    /\ UNCHANGED <<isListening, isSpeaking, error, recognitionRef, utt,
                   recSupported, synthSupported, srv, timerFor>>

\* recognition.onresult, lines 114-125, with the synchronous head of
\* sendMessage (lines 148-153) that it runs.  continuous = false and
\* interimResults = false: a session delivers at most one, final, result.
RecOnResult(k, transcript) ==
    /\ rec[k].st = "active"
    /\ rec' = [rec EXCEPT ![k] = [st |-> "resulted", transcript |-> transcript, code |-> ""]]
    /\ IF Truthy(Trim(transcript))
       THEN /\ messages' = Append(messages, UserMessage(transcript))
            /\ isProcessing' = TRUE
            /\ isSearching' = TRUE
            /\ send' = [send EXCEPT ![k].pc = "fetch"]
       ELSE UNCHANGED <<messages, isProcessing, isSearching, send>>
    /\ stopReq' = stopReq \ {k}
    /\ UNCHANGED <<isListening, isSpeaking, error, recognitionRef, utt,
                   recSupported, synthSupported, srv, timerFor>>

\* onerror reporting the error without leaving Listening.
RecOnErrorKeepsListening(k, code) ==
    /\ rec[k].st \in {"starting", "active"}
    /\ rec' = [rec EXCEPT ![k] = [st |-> "errored", transcript |-> <<>>, code |-> code]]
    /\ stopReq' = stopReq \ {k}
    /\ error' = ErrRecognition(code)
    /\ UNCHANGED <<isListening, messages, isProcessing, isSearching, isSpeaking,
                   recognitionRef, send, utt, recSupported, synthSupported, srv, timerFor>>

\* recognition.onerror, lines 127-131.
RecOnError(k, code) ==
    /\ rec[k].st \in {"starting", "active"}
    /\ rec' = [rec EXCEPT ![k] = [st |-> "errored", transcript |-> <<>>, code |-> code]]
    /\ stopReq' = stopReq \ {k}
    /\ error' = ErrRecognition(code)
    /\ isListening' = FALSE
    /\ timerFor' = 0
    /\ UNCHANGED <<messages, isProcessing, isSearching, isSpeaking, recognitionRef,
                   send, utt, recSupported, synthSupported, srv>>

\* recognition.onend, lines 133-135.  A session that never started ends only
\* if it was stopped.
RecOnEnd(k) ==
    /\ \/ rec[k].st \in {"active", "resulted", "errored"}
       \/ rec[k].st = "starting" /\ k \in stopReq
    /\ rec' = [rec EXCEPT ![k] = [st |-> "ended", transcript |-> <<>>, code |-> ""]]
    /\ stopReq' = stopReq \ {k}
    /\ isListening' = FALSE
    /\ timerFor' = 0
    /\ UNCHANGED <<messages, isProcessing, isSearching, isSpeaking, error,
                   recognitionRef, send, utt, recSupported, synthSupported, srv>>

\* stopListening, lines 141-146, as the next values of stopReq and
\* isListening.  stop() asks the session to finish; a result for the audio
\* already captured may still be delivered.  stop() on a session that has
\* delivered its result or error, or has ended, changes nothing.
StopListeningEffect ==
    IF recognitionRef # 0
    THEN /\ stopReq' = (IF rec[recognitionRef].st \in {"starting", "active"}
                        THEN stopReq \cup {recognitionRef} ELSE stopReq)
         /\ isListening' = FALSE
         /\ timerFor' = 0
    ELSE UNCHANGED <<stopReq, isListening, timerFor>>

StopListening ==
    /\ StopListeningEffect
    /\ UNCHANGED <<messages, isProcessing, isSearching, isSpeaking, error,
                   recognitionRef, rec, send, utt, recSupported, synthSupported, srv>>

\* The timer callback of the useEffect, lines 79-82.
ListenTimeout ==
    /\ TimerArmed
    /\ StopListeningEffect
    /\ error' = ErrTimeout
    /\ UNCHANGED <<messages, isProcessing, isSearching, isSpeaking,
                   recognitionRef, rec, send, utt, recSupported, synthSupported, srv>>

----------------------------------------------------------------------------
\* sendMessage, lines 148-193, after its synchronous head: one action per
\* continuation of an await.

\* Response.ok
ResOk(status) == status >= 200 /\ status <= 299

OkStatuses == { 200 }

\* The catch block without the finally block.
SendFailedNoFinally(k, msg) ==
    /\ error' = (IF Truthy(msg) THEN msg ELSE ErrSendDefault)
    /\ isSearching' = FALSE
    /\ isProcessing' = isProcessing
    /\ send' = [send EXCEPT ![k] = [pc |-> "failed", status |-> 0]]

\* The catch and finally blocks, lines 186-192, for activation k.
SendFailed(k, msg) ==
    /\ error' = (IF Truthy(msg) THEN msg ELSE ErrSendDefault)
    /\ isSearching' = FALSE
    /\ isProcessing' = FALSE
    /\ send' = [send EXCEPT ![k] = [pc |-> "failed", status |-> 0]]

\* await fetch(...) rejects (network failure), lines 153-159 to the catch.
FetchReject(k, msg) ==
    /\ send[k].pc = "fetch"
    /\ SendFailed(k, msg)
    /\ UNCHANGED <<messages, isListening, isSpeaking, recognitionRef, rec, stopReq,
                   utt, recSupported, synthSupported, srv, timerFor>>

\* await fetch(...) resolves, lines 153-168: up to the next await, which is
\* res.json() of the error body or of the payload.
FetchRespond(k, status) ==
    /\ send[k].pc = "fetch"
    /\ isSearching' = FALSE
    /\ send' = [send EXCEPT ![k] = [pc |-> IF ResOk(status) THEN "okBody" ELSE "errBody",
                                    status |-> status]]
    /\ UNCHANGED <<messages, isListening, isProcessing, isSpeaking, error,
                   recognitionRef, rec, stopReq, utt, recSupported, synthSupported, srv, timerFor>>

\* await res.json().catch(() => ({})) of a non-ok response, lines 163-166.
\* bodyError is errorData.error; <<>> also stands for a body that did not
\* parse.
ErrBodyResolve(k, bodyError) ==
    /\ send[k].pc = "errBody"
    /\ SendFailed(k, IF Truthy(bodyError) THEN bodyError
                     ELSE ErrHttp(send[k].status))
    /\ UNCHANGED <<messages, isListening, isSpeaking, recognitionRef, rec, stopReq,
                   utt, recSupported, synthSupported, srv, timerFor>>

\* await res.json() of an ok response throws, line 168 to the catch.
OkBodyThrow(k, msg) ==
    /\ send[k].pc = "okBody"
    /\ SendFailed(k, msg)
    /\ UNCHANGED <<messages, isListening, isSpeaking, recognitionRef, rec, stopReq,
                   utt, recSupported, synthSupported, srv, timerFor>>

\* The payload carries an error field, lines 170-172.
OkBodyError(k, bodyError) ==
    /\ send[k].pc = "okBody"
    /\ Truthy(bodyError)
    /\ SendFailed(k, bodyError)
    /\ UNCHANGED <<messages, isListening, isSpeaking, recognitionRef, rec, stopReq,
                   utt, recSupported, synthSupported, srv, timerFor>>

\* The reply without the sentinel.
ReplyNoSentinel(content) == content.text

\* line 175
Reply(content) ==
    IF content.present /\ Truthy(content.text) THEN content.text ELSE NoReplyReceived

\* speakText, lines 195-217, called by activation k.
SpeakText(k) ==
    IF synthSupported
    THEN /\ utt' = [Cancel(utt) EXCEPT ![k] = "pending"]
         /\ UNCHANGED error
    ELSE /\ error' = ErrTtsUnsupported
         /\ UNCHANGED utt

\* The success path speaking the reply without appending it.
OkBodyReplyNoAppend(k, content) ==
    /\ send[k].pc = "okBody"
    /\ SpeakText(k)
    /\ isProcessing' = FALSE
    /\ send' = [send EXCEPT ![k] = [pc |-> "ok", status |-> 0]]
    /\ UNCHANGED <<messages, isListening, isSearching, isSpeaking, recognitionRef, rec,
                   stopReq, recSupported, synthSupported, srv, timerFor>>

\* The success path putting the reply in front of the transcript.
OkBodyReplyPrepends(k, content) ==
    /\ send[k].pc = "okBody"
    /\ messages' = <<AssistantMessage(Reply(content))>> \o messages
    /\ SpeakText(k)
    /\ isProcessing' = FALSE
    /\ send' = [send EXCEPT ![k] = [pc |-> "ok", status |-> 0]]
    /\ UNCHANGED <<isListening, isSearching, isSpeaking, recognitionRef, rec,
                   stopReq, recSupported, synthSupported, srv, timerFor>>

\* The payload is a completion, lines 174-184, then the finally block.
OkBodyReply(k, content) ==
    /\ send[k].pc = "okBody"
    /\ messages' = Append(messages, AssistantMessage(Reply(content)))
    /\ SpeakText(k)
    /\ isProcessing' = FALSE
    /\ send' = [send EXCEPT ![k] = [pc |-> "ok", status |-> 0]]
    /\ UNCHANGED <<isListening, isSearching, isSpeaking, recognitionRef, rec,
                   stopReq, recSupported, synthSupported, srv, timerFor>>

----------------------------------------------------------------------------
\* The utterance handlers installed by speakText.

\* utterance.onstart, line 205.  The queue speaks one utterance at a time.
UttOnStart(k) ==
    /\ utt[k] = "pending"
    /\ ~SynthSpeaking(utt)
    /\ utt' = [utt EXCEPT ![k] = "speaking"]
    /\ isSpeaking' = TRUE
    /\ UNCHANGED <<messages, isListening, isProcessing, isSearching, error,
                   recognitionRef, rec, stopReq, send, recSupported, synthSupported, srv, timerFor>>

\* onend leaving isSpeaking as it is.
UttOnEndKeepsSpeaking(k) ==
    /\ utt[k] \in {"speaking", "cancelled"}
    /\ utt' = [utt EXCEPT ![k] = "ended"]
    /\ UNCHANGED <<isSpeaking, messages, isListening, isProcessing, isSearching, error,
                   recognitionRef, rec, stopReq, send, recSupported, synthSupported, srv, timerFor>>

\* utterance.onend, line 206: the utterance finished, or the browser reports
\* a cancelled utterance with an end event.
UttOnEnd(k) ==
    /\ utt[k] \in {"speaking", "cancelled"}
    /\ utt' = [utt EXCEPT ![k] = "ended"]
    /\ isSpeaking' = FALSE
    /\ UNCHANGED <<messages, isListening, isProcessing, isSearching, error,
                   recognitionRef, rec, stopReq, send, recSupported, synthSupported, srv, timerFor>>

\* utterance.onerror, lines 207-211: synthesis failed, or the browser reports
\* a cancelled utterance with an error event (interrupted, canceled).
UttOnError(k) ==
    /\ utt[k] \in {"pending", "speaking", "cancelled"}
    /\ utt' = [utt EXCEPT ![k] = "ended"]
    /\ isSpeaking' = FALSE
    /\ error' = ErrTts
    /\ UNCHANGED <<messages, isListening, isProcessing, isSearching,
                   recognitionRef, rec, stopReq, send, recSupported, synthSupported, srv, timerFor>>

\* The browser delivers no event for a cancelled utterance.
UttDropped(k) ==
    /\ utt[k] = "cancelled"
    /\ utt' = [utt EXCEPT ![k] = "ended"]
    /\ UNCHANGED <<messages, isListening, isProcessing, isSearching, isSpeaking, error,
                   recognitionRef, rec, stopReq, send, recSupported, synthSupported, srv, timerFor>>

\* stopSpeaking, lines 219-224, as the next values of utt and isSpeaking.
StopSpeakingEffect ==
    IF synthSupported
    THEN /\ utt' = Cancel(utt)
         /\ isSpeaking' = FALSE
    ELSE UNCHANGED <<utt, isSpeaking>>

StopSpeaking ==
    /\ StopSpeakingEffect
    /\ UNCHANGED <<messages, isListening, isProcessing, isSearching, error,
                   recognitionRef, rec, stopReq, send, recSupported, synthSupported, srv, timerFor>>

\* clearChat without the stopSpeaking() call.
ClearChatKeepsPlayback ==
    /\ messages' = <<>>
    /\ error' = NoError
    /\ UNCHANGED <<isListening, isProcessing, isSearching, isSpeaking, utt,
                   recognitionRef, rec, stopReq, send, recSupported, synthSupported, srv, timerFor>>

\* clearChat, lines 226-230.
ClearChat ==
    /\ messages' = <<>>
    /\ error' = NoError
    /\ StopSpeakingEffect
    /\ UNCHANGED <<isListening, isProcessing, isSearching,
                   recognitionRef, rec, stopReq, send, recSupported, synthSupported, srv, timerFor>>

----------------------------------------------------------------------------
\* The buttons, lines 319-358: a handler runs when its button is rendered
\* and enabled.

ClickStartListening == ~isListening /\ ~isProcessing /\ StartListening

ClickStopListening == isListening /\ StopListening

ClickStopSpeaking == isSpeaking /\ StopSpeaking

ClickClear == Len(messages) > 0 /\ ClearChat

\* Events the browser and the network deliver.
Environment ==
    \/ \E k \in Turns : RecOnStart(k)
    \/ \E k \in Turns, t \in Transcripts : RecOnResult(k, t)
    \/ \E k \in Turns, c \in RecErrorCodes : RecOnError(k, c)
    \/ \E k \in Turns : RecOnEnd(k)
    \/ ListenTimeout
    \/ \E k \in Turns, m \in ThrownMessages : FetchReject(k, m)
    \/ \E k \in Turns, s \in OkStatuses \cup FailStatuses : FetchRespond(k, s)
    \/ \E k \in Turns, e \in BodyErrors : ErrBodyResolve(k, e)
    \/ \E k \in Turns, m \in ThrownMessages : OkBodyThrow(k, m)
    \/ \E k \in Turns, e \in BodyErrors : OkBodyError(k, e)
    \/ \E k \in Turns, c \in Contents : OkBodyReply(k, c)
    \/ \E k \in Turns : UttOnStart(k)
    \/ \E k \in Turns : UttOnEnd(k)
    \/ \E k \in Turns : UttOnError(k)
    \/ \E k \in Turns : UttDropped(k)

\* The component driven through its rendered buttons.
Next ==
    \/ ClickStartListening
    \/ ClickStopListening
    \/ ClickStopSpeaking
    \/ ClickClear
    \/ Environment

Spec == Init /\ [][Next]_vars

\* The controller's handlers invoked in any state, whatever the buttons show.
NextCtl ==
    \/ StartListening
    \/ StopListening
    \/ StopSpeaking
    \/ ClearChat
    \/ Environment

SpecCtl == Init /\ [][NextCtl]_vars

\* Nothing of an earlier turn is left: no flag is set, no recognition
\* session is open, no request is in flight and no utterance is queued.
TurnOver ==
    /\ ~isListening /\ ~isProcessing /\ ~isSearching /\ ~isSpeaking
    /\ \A k \in Turns :
          /\ rec[k].st \in {"none", "ended"}
          /\ send[k].pc \in {"none", "ok", "failed"}
          /\ utt[k] \in {"none", "ended"}

\* The Start Listening button pressed once the previous turn is over.
StartFromIdle == TurnOver /\ ClickStartListening

\* One turn at a time: the user only starts a capture, and only from Idle.
NextTurnByTurn ==
    \/ StartFromIdle
    \/ \E k \in Turns : RecOnStart(k)
    \/ \E k \in Turns, t \in Transcripts : RecOnResult(k, t)
    \/ \E k \in Turns, c \in RecErrorCodes : RecOnError(k, c)
    \/ \E k \in Turns : RecOnEnd(k)
    \/ ListenTimeout
    \/ \E k \in Turns, m \in ThrownMessages : FetchReject(k, m)
    \/ \E k \in Turns, s \in OkStatuses \cup FailStatuses : FetchRespond(k, s)
    \/ \E k \in Turns, e \in BodyErrors : ErrBodyResolve(k, e)
    \/ \E k \in Turns, m \in ThrownMessages : OkBodyThrow(k, m)
    \/ \E k \in Turns, e \in BodyErrors : OkBodyError(k, e)
    \/ \E k \in Turns, c \in Contents : OkBodyReply(k, c)
    \/ \E k \in Turns : UttOnStart(k)
    \/ \E k \in Turns : UttOnEnd(k)
    \/ \E k \in Turns : UttOnError(k)

\* The browser ends every recognition session, and starts and finishes every
\* utterance it was given.
FairTurnByTurn ==
    /\ Init /\ [][NextTurnByTurn]_vars
    /\ \A k \in Turns : WF_vars(RecOnEnd(k))
    /\ \A k \in Turns : WF_vars(UttOnStart(k))
    /\ \A k \in Turns : WF_vars(UttOnEnd(k))

TypeOK ==
    /\ isListening \in BOOLEAN /\ isProcessing \in BOOLEAN
    /\ isSearching \in BOOLEAN /\ isSpeaking \in BOOLEAN
    /\ recognitionRef \in 0..MaxTurns
    /\ timerFor \in 0..MaxTurns /\ (timerFor # 0 <=> isListening)
    /\ \A k \in Turns : rec[k].st \in {"none", "starting", "active", "resulted", "errored", "ended"}
    /\ \A k \in Turns : send[k].pc \in {"none", "fetch", "errBody", "okBody", "ok", "failed"}
    /\ \A k \in Turns : utt[k] \in {"none", "pending", "speaking", "cancelled", "ended"}
    /\ stopReq \subseteq Turns
    /\ Len(messages) <= 2 * MaxTurns

----------------------------------------------------------------------------
\* The API routes: /api/voice-chat and /api/search-wikipedia.

\* The letters String.prototype.toLowerCase changes, as far as the modelled
\* utterances use them, and what it changes them to.
UpperCase == <<"A", "B", "C", "D", "E", "F", "G", "H", "I", "J", "K", "L", "M", "N", "O", "P", "Q", "R", "S", "T", "U", "V", "W", "X", "Y", "Z">>

LowerCase == <<"a", "b", "c", "d", "e", "f", "g", "h", "i", "j", "k", "l", "m", "n", "o", "p", "q", "r", "s", "t", "u", "v", "w", "x", "y", "z">>

ToLowerCaseChar(c) ==
    IF \E i \in DOMAIN UpperCase : UpperCase[i] = c
        THEN LowerCase[CHOOSE i \in DOMAIN UpperCase : UpperCase[i] = c]
        ELSE c

\* message.toLowerCase()
ToLowerCase(s) == [i \in 1..Len(s) |-> ToLowerCaseChar(s[i])]

\* String.prototype.includes: keyword occurs in s at some offset.
Includes(s, keyword) ==
    \E i \in 0..(Len(s) - Len(keyword)) : SubSeq(s, i + 1, i + Len(keyword)) = keyword

searchKeywords ==
    { <<"w", "h", "a", "t", " ", "i", "s">>,
      <<"w", "h", "o", " ", "i", "s">>,
      <<"w", "h", "e", "n", " ", "d", "i", "d">>,
      <<"w", "h", "e", "r", "e", " ", "i", "s">>,
      <<"h", "o", "w", " ", "d", "o", "e", "s">>,
      <<"t", "e", "l", "l", " ", "m", "e", " ", "a", "b", "o", "u", "t">>,
      <<"i", "n", "f", "o", "r", "m", "a", "t", "i", "o", "n", " ", "a", "b", "o", "u", "t">>,
      <<"e", "x", "p", "l", "a", "i", "n">>,
      <<"d", "e", "f", "i", "n", "e">>,
      <<"d", "e", "s", "c", "r", "i", "b", "e">>,
      <<"h", "i", "s", "t", "o", "r", "y", " ", "o", "f">>,
      <<"f", "a", "c", "t", "s", " ", "a", "b", "o", "u", "t">>,
      <<"d", "e", "t", "a", "i", "l", "s", " ", "a", "b", "o", "u", "t">> }

\* needsSearch without toLowerCase().
needsSearchCaseSensitive(message) ==
    \E keyword \in searchKeywords : Includes(message, keyword)

needsSearch(message) ==
    \E keyword \in searchKeywords : Includes(ToLowerCase(message), keyword)

\* Utterances: a beginning, a middle and an end, so that marker phrases occur
\* at the start, inside and across words, in either case, or not at all.
Heads == { <<>>, <<"s", "o", "m", "e">>, <<"H", "i", "s">> }

Middles ==
    { <<"w", "h", "a", "t", " ", "i", "s">>,
      <<"W", "h", "a", "t", " ", "I", "s">>,
      <<"w", "h", "a", "t", "i", "s">>,
      <<"T", "e", "l", "l", " ", "m", "e", " ", "a", "b", "o", "u", "t">>,
      <<"E", "X", "P", "L", "A", "I", "N">>,
      <<"I", " ", "l", "i", "k", "e", " ", "p", "i", "z", "z", "a">>,
      <<"d", "e", "f", "i", "n">>,
      <<"t", "o", "r", "y", " ", "o", "f">> }

Tails == { <<>>, <<" ", "g", "r", "a", "v", "i", "t", "y">>, <<"e", " ", "i", "t">> }

TellMeAboutGravity == <<"T", "e", "l", "l", " ", "m", "e", " ", "a", "b", "o", "u", "t", " ", "g", "r", "a", "v", "i", "t", "y">>

ILikePizza == <<"I", " ", "l", "i", "k", "e", " ", "p", "i", "z", "z", "a">>

Utterances == { h \o m \o t : h \in Heads, m \in Middles, t \in Tails }

\* What a missing property reads as, and renders as in a template string.
Undefined == "undefined"

\* Bodies of a request to /api/voice-chat: no body at all, a JSON object
\* without message, and JSON objects with a message.
RequestBodies ==
    { [kind |-> "empty", hasMessage |-> FALSE, message |-> <<>>],
      [kind |-> "json", hasMessage |-> FALSE, message |-> <<>>],
      [kind |-> "json", hasMessage |-> TRUE, message |-> <<>>] }
    \cup { [kind |-> "json", hasMessage |-> TRUE, message |-> u] : u \in Utterances }

\* const { message } = await req.json(), for a body that parses.
MessageOf(body) == IF body.hasMessage THEN body.message ELSE <<>>

\* What the Wikipedia search request can come to: the fetch rejects, the
\* body is not JSON, or it is JSON with the hits of query.search (none when
\* the answer carries no query.search).
SearchOutcomes ==
    { [kind |-> "reject", status |-> 0, hits |-> <<>>],
      [kind |-> "malformed", status |-> 200, hits |-> <<>>],
      [kind |-> "json", status |-> 503, hits |-> <<>>],
      [kind |-> "json", status |-> 200, hits |-> <<>>],
      [kind |-> "json", status |-> 200, hits |-> <<"Photosynthesis">>] }

\* What the page-summary request can come to.  The summary API answers a
\* missing page with status 404 and a JSON problem document.
SummaryOutcomes ==
    { [kind |-> "reject", status |-> 0, title |-> Undefined, extract |-> Undefined,
       page |-> Undefined],
      [kind |-> "malformed", status |-> 503, title |-> Undefined, extract |-> Undefined,
       page |-> Undefined],
      [kind |-> "json", status |-> 404, title |-> "Not found.", extract |-> Undefined,
       page |-> Undefined],
      [kind |-> "json", status |-> 200, title |-> "Photosynthesis",
       extract |-> "Photosynthesis is how plants turn light into chemical energy.",
       page |-> "https://en.wikipedia.org/wiki/Photosynthesis"] }

\* Statuses and bodies of the completion API's answers.
UpstreamStatuses == { 200, 401, 503 }

UpstreamErrorTexts == { "Service Unavailable", "{error:{message:No auth credentials found}}" }

UpstreamPayloads == { "{choices:[{message:{content:r}}]}", "{choices:[]}" }

\* NextResponse.json(body, { status })
JsonResponse(status, err, payload) ==
    [status |-> status, error |-> err, payload |-> payload]

\* The fallback url of the search route, line 29.  encodeURIComponent leaves
\* the modelled titles as they are.
WikiUrl(title) == "https://en.wikipedia.org/wiki/" \o title

\* The answers of /api/search-wikipedia: the catch block, no hits, and the
\* summary of the first hit.
RouteSearchError == [status |-> 500, error |-> "Search error", results |-> <<>>]

RouteQueryMissing == [status |-> 400, error |-> "Query missing", results |-> <<>>]

RouteNoResults == [status |-> 200, error |-> "", results |-> <<>>]

RouteResults(summaryData, firstTitle) ==
    [ status |-> 200, error |-> "",
      results |-> << [ title |-> summaryData.title,
                       summary |-> summaryData.extract,
                       url |-> IF summaryData.page # Undefined
                                   THEN summaryData.page
                                   ELSE WikiUrl(firstTitle) ] >> ]

\* searchWikipedia's return value for an answer of the search route:
\* data.results?.[0] || null, as a sequence of at most one result.
searchWikipedia(routeResp) ==
    IF routeResp.results # <<>> THEN <<routeResp.results[1]>> ELSE <<>>

\* systemPrompt, as the sequence of its parts.
BasePrompt ==
    "You are a helpful AI assistant. Answer the user's question clearly and concisely."

SystemPrompt(searchResult) ==
    IF searchResult # <<>>
        THEN << BasePrompt,
                "Here is relevant information from Wikipedia: Title: ", searchResult[1].title,
                " Summary: ", searchResult[1].summary,
                " Source: ", searchResult[1].url,
                " Use this information to help answer the user's question. Be sure to mention that the information comes from Wikipedia when relevant." >>
        ELSE << BasePrompt >>

\* payload, lines 44-56.
Payload(searchResult, message) ==
    [ model |-> "anthropic/claude-sonnet-4",
      messages |-> << [role |-> "system", text |-> SystemPrompt(searchResult)],
                      [role |-> "user", text |-> message] >> ]

\* The catch block of /api/voice-chat, lines 75-78.
VoiceChatCatch(s) ==
    [s EXCEPT !.pc = "done", !.resp = JsonResponse(500, "Server error", "")]

\* The completion request also carrying the user message of the call before.
SendCompletionWithHistory(s, searchResult) ==
    [s EXCEPT !.searchResult = searchResult,
              !.request = [Payload(searchResult, s.message) EXCEPT
                              !.messages = @ \o (IF s.prev.request.messages = <<>>
                                                      THEN <<>>
                                                      ELSE <<s.prev.request.messages[2]>>)],
              !.calls = Append(@, "completion"),
              !.pc = "complete"]

\* /api/voice-chat from the return of searchWikipedia (or from the classifier
\* saying no) to the completion fetch, lines 39-65.
SendCompletion(s, searchResult) ==
    [s EXCEPT !.searchResult = searchResult,
              !.request = Payload(searchResult, s.message),
              !.calls = Append(@, "completion"),
              !.pc = "complete"]

\* searchWikipedia failing the request when the search route has no result.
LookupReturnFailsOnMiss(s, routeResp) ==
    IF routeResp.results = <<>>
        THEN VoiceChatCatch([s EXCEPT !.route = routeResp])
        ELSE SendCompletion([s EXCEPT !.route = routeResp], searchWikipedia(routeResp))

\* The search route's answer reaching searchWikipedia, and searchWikipedia
\* returning to the handler, lines 10-11 and 38.
LookupReturn(s, routeResp) ==
    SendCompletion([s EXCEPT !.route = routeResp], searchWikipedia(routeResp))

\* /api/voice-chat, lines 27-42 and on to line 65 when no search is needed:
\* the request is parsed, checked and classified.  req.json() throws on a
\* body that is not JSON.
VoiceChatStart ==
    /\ srv.pc = "recv"
    /\ srv' =
         IF srv.body.kind = "empty"
             THEN VoiceChatCatch(srv)
         ELSE IF ~Truthy(MessageOf(srv.body))
             THEN [srv EXCEPT !.pc = "done",
                              !.resp = JsonResponse(400, "Message missing", "")]
         ELSE IF needsSearch(MessageOf(srv.body))
             THEN [srv EXCEPT !.message = MessageOf(srv.body),
                              !.needs = TRUE,
                              !.calls = Append(@, "search-wikipedia"),
                              !.pc = "lookup"]
         ELSE SendCompletion([srv EXCEPT !.message = MessageOf(srv.body),
                                         !.needs = FALSE], <<>>)
    /\ UNCHANGED cvars

\* searchWikipedia's fetch of the search route rejects, lines 5-14.
LookupReject ==
    /\ srv.pc = "lookup"
    /\ srv' = SendCompletion(srv, <<>>)
    /\ UNCHANGED cvars

\* /api/search-wikipedia, lines 3-12: the query is checked and the Wikipedia
\* search is requested.
SearchRouteStart ==
    /\ srv.pc = "lookup"
    /\ srv' =
         IF ~Truthy(srv.message)
             THEN LookupReturn(srv, RouteQueryMissing)
             ELSE [srv EXCEPT !.calls = Append(@, "wiki-search"), !.pc = "wikiSearch"]
    /\ UNCHANGED cvars

\* /api/search-wikipedia, lines 12-22 and the catch block: the search
\* request comes to outcome o.
WikiSearchDone(o) ==
    /\ srv.pc = "wikiSearch"
    /\ srv' =
         LET s == [srv EXCEPT !.searchOut = o] IN
         IF o.kind # "json"
             THEN LookupReturn(s, RouteSearchError)
         ELSE IF o.hits = <<>>
             THEN LookupReturn(s, RouteNoResults)
         ELSE [s EXCEPT !.calls = Append(@, "wiki-summary"), !.pc = "wikiSummary"]
    /\ UNCHANGED cvars

\* /api/search-wikipedia, lines 22-31 and the catch block: the summary
\* request comes to outcome o.
WikiSummaryDone(o) ==
    /\ srv.pc = "wikiSummary"
    /\ srv' =
         LET s == [srv EXCEPT !.summaryOut = o] IN
         IF o.kind # "json"
             THEN LookupReturn(s, RouteSearchError)
             ELSE LookupReturn(s, RouteResults(o, srv.searchOut.hits[1]))
    /\ UNCHANGED cvars

\* The completion fetch rejects, lines 58-65 to the catch block.
UpstreamReject ==
    /\ srv.pc = "complete"
    /\ srv' = VoiceChatCatch(srv)
    /\ UNCHANGED cvars

\* The completion fetch resolves, lines 58-68 or 58-73: up to the read of
\* the body.
UpstreamRespond(status) ==
    /\ srv.pc = "complete"
    /\ srv' = [srv EXCEPT !.up.status = status,
                          !.pc = IF ResOk(status) THEN "readOk" ELSE "readErr"]
    /\ UNCHANGED cvars

\* The failure answered with status 500 whatever the upstream status.
ReadErrorBodyAs500(text) ==
    /\ srv.pc = "readErr"
    /\ srv' = [srv EXCEPT !.up.body = text,
                          !.pc = "done",
                          !.resp = JsonResponse(500, "Failed to get AI response", "")]
    /\ UNCHANGED cvars

\* await response.text() resolves, lines 68-70.
ReadErrorBody(text) ==
    /\ srv.pc = "readErr"
    /\ srv' = [srv EXCEPT !.up.body = text,
                          !.pc = "done",
                          !.resp = JsonResponse(srv.up.status, "Failed to get AI response", "")]
    /\ UNCHANGED cvars

\* await response.json() resolves, lines 73-74.
ReadPayload(payload) ==
    /\ srv.pc = "readOk"
    /\ srv' = [srv EXCEPT !.up.body = payload,
                          !.pc = "done",
                          !.resp = JsonResponse(200, "", payload)]
    /\ UNCHANGED cvars

\* Reading the body of the completion answer fails, lines 68 or 73 to the
\* catch block.
ReadBodyThrow ==
    /\ srv.pc \in {"readErr", "readOk"}
    /\ srv' = VoiceChatCatch(srv)
    /\ UNCHANGED cvars

\* One request to /api/voice-chat arrives; the component does nothing.
InitRoutes ==
    /\ srv \in { [SrvIdle EXCEPT !.pc = "recv", !.body = b] : b \in RequestBodies }
    /\ messages = <<>>
    /\ isListening = FALSE
    /\ isProcessing = FALSE
    /\ isSearching = FALSE
    /\ isSpeaking = FALSE
    /\ error = NoError
    /\ recognitionRef = 0
    /\ rec = [k \in Turns |-> [st |-> "none", transcript |-> <<>>, code |-> ""]]
    /\ stopReq = {}
    /\ send = [k \in Turns |-> [pc |-> "none", status |-> 0]]
    /\ utt = [k \in Turns |-> "none"]
    /\ recSupported = TRUE
    /\ synthSupported = TRUE
    /\ timerFor = 0

NextRoutes ==
    \/ VoiceChatStart
    \/ LookupReject
    \/ SearchRouteStart
    \/ \E o \in SearchOutcomes : WikiSearchDone(o)
    \/ \E o \in SummaryOutcomes : WikiSummaryDone(o)
    \/ UpstreamReject
    \/ \E status \in UpstreamStatuses : UpstreamRespond(status)
    \/ \E text \in UpstreamErrorTexts : ReadErrorBody(text)
    \/ \E payload \in UpstreamPayloads : ReadPayload(payload)
    \/ ReadBodyThrow

SpecRoutes == InitRoutes /\ [][NextRoutes]_vars

\* Bodies of the requests of successive calls: one utterance the classifier
\* accepts, one it rejects, and no body.
CallBodies ==
    { [kind |-> "empty", hasMessage |-> FALSE, message |-> <<>>] }
    \cup { [kind |-> "json", hasMessage |-> TRUE, message |-> u] :
             u \in {TellMeAboutGravity, ILikePizza} }

\* The handler has answered and the next request arrives.  The handler
\* module keeps nothing between calls (part_002 has no module-level state);
\* prev records the last completion request sent, for comparison only.
NextRequest(b) ==
    /\ srv.pc = "done"
    /\ srv' = [SrvIdle EXCEPT
                 !.pc = "recv",
                 !.body = b,
                 !.prev = IF srv.request.messages # <<>>
                              THEN [message |-> srv.message,
                                    searchResult |-> srv.searchResult,
                                    request |-> srv.request]
                              ELSE srv.prev]
    /\ UNCHANGED cvars

\* The first of the successive calls arrives; the component does nothing.
InitCalls ==
    /\ srv \in { [SrvIdle EXCEPT !.pc = "recv", !.body = b] : b \in CallBodies }
    /\ messages = <<>>
    /\ isListening = FALSE
    /\ isProcessing = FALSE
    /\ isSearching = FALSE
    /\ isSpeaking = FALSE
    /\ error = NoError
    /\ recognitionRef = 0
    /\ rec = [k \in Turns |-> [st |-> "none", transcript |-> <<>>, code |-> ""]]
    /\ stopReq = {}
    /\ send = [k \in Turns |-> [pc |-> "none", status |-> 0]]
    /\ utt = [k \in Turns |-> "none"]
    /\ recSupported = TRUE
    /\ synthSupported = TRUE
    /\ timerFor = 0

\* Calls to /api/voice-chat one after another.
NextCalls ==
    \/ VoiceChatStart
    \/ LookupReject
    \/ SearchRouteStart
    \/ \E o \in SearchOutcomes : WikiSearchDone(o)
    \/ \E o \in SummaryOutcomes : WikiSummaryDone(o)
    \/ UpstreamReject
    \/ \E status \in UpstreamStatuses : UpstreamRespond(status)
    \/ \E text \in UpstreamErrorTexts : ReadErrorBody(text)
    \/ \E payload \in UpstreamPayloads : ReadPayload(payload)
    \/ ReadBodyThrow
    \/ \E b \in CallBodies : NextRequest(b)

SpecCalls == InitCalls /\ [][NextCalls]_vars

----------------------------------------------------------------------------
\* Properties of the turn controller.

\* sendMessage activations that have been called and have not returned.
InFlight == { k \in Turns : send[k].pc \in {"fetch", "errBody", "okBody"} }

\* A step in which a SpeechRecognition object is created and started.
SessionCreated(k) == rec[k].st = "none" /\ rec'[k].st = "starting"

\* A step in which session k delivers its result.
ResultDelivered(k) == rec[k].st = "active" /\ rec'[k].st = "resulted"

\* Turns of a role among the first n of a transcript.
Count(msgs, role, n) == Cardinality({ i \in 1..n : msgs[i].role = role })

\* C1: the controller is never Listening (isListening) while a completion
\* is active (isProcessing).
C1_NeverListeningWhileProcessing == ~(isListening /\ isProcessing)

\* C2: at most one sendMessage call is in flight at any time.
C2_AtMostOneInFlight == Cardinality(InFlight) <= 1

\* C3: startListening invoked while the controller is Listening, Searching
\* or Completing changes neither the state flags, the error text, the capture
\* handle nor the transcript, and starts no recognition session.
C3_StartIsNoOpWhenBusy ==
    [][ ((isListening \/ isSearching \/ isProcessing) /\ StartListening)
        => UNCHANGED <<isListening, isProcessing, isSearching, isSpeaking, error,
                       recognitionRef, messages, rec>> ]_vars

\* C5: capture and playback are mutually exclusive: isListening and
\* isSpeaking are never both true.
C5_CaptureExcludesPlayback == ~(isListening /\ isSpeaking)

\* C7: a completion response arriving after its turn was abandoned appends
\* nothing: every assistant Turn of the transcript has its user Turn before
\* it, so no prefix of the transcript holds more assistant than user Turns.
C7_NoOrphanAssistantTurn ==
    \A n \in 1..Len(messages) :
        Count(messages, "assistant", n) <= Count(messages, "user", n)


\* An utterance is queued or being spoken.
PlaybackLive(u) == \E k \in Turns : u[k] \in {"pending", "speaking"}

\* C4: when startListening is invoked while an utterance is being spoken,
\* that step cancels the playback and clears isSpeaking and does not enter
\* Listening; Listening is entered only by a later onstart of a session.
C4_CancelThenListen ==
    [][ /\ \A k \in Turns :
              (SynthSpeaking(utt) /\ SessionCreated(k))
              => /\ ~PlaybackLive(utt')
                 /\ isSpeaking' = FALSE
                 /\ isListening' = isListening
        /\ (~isListening /\ isListening')
              => \E k \in Turns : rec[k].st = "starting" /\ rec'[k].st = "active"
      ]_vars

\* A capture was started over a playing reply: the reply's utterance is
\* cancelled and the new session has been announced by onstart.
C4_Witness ==
    /\ send[1].pc = "ok" /\ utt[1] = "cancelled"
    /\ rec[2].st = "active" /\ isListening /\ ~isSpeaking
    /\ Len(messages) = 2

\* C6: the step in which a completion succeeds appends exactly one assistant
\* Turn and does not yet speak; the reply's playback starts only after that
\* step; a step in which a completion fails appends nothing; no other step
\* appends an assistant Turn.
C6_AppendOnSuccessOnly ==
    [][ /\ \A k \in Turns :
              (send[k].pc # "ok" /\ send'[k].pc = "ok")
              => /\ Len(messages') = Len(messages) + 1
                 /\ SubSeq(messages', 1, Len(messages)) = messages
                 /\ messages'[Len(messages')].role = "assistant"
                 /\ utt[k] = "none" /\ utt'[k] \in {"none", "pending"}
                 /\ isSpeaking' = isSpeaking
        /\ \A k \in Turns :
              (send[k].pc # "failed" /\ send'[k].pc = "failed")
              => messages' = messages
        /\ \A k \in Turns :
              (utt[k] # "speaking" /\ utt'[k] = "speaking") => send[k].pc = "ok"
        /\ Count(messages', "assistant", Len(messages'))
              > Count(messages, "assistant", Len(messages))
              => \E k \in Turns : send[k].pc = "okBody" /\ send'[k].pc = "ok"
      ]_vars

\* One completion succeeded and its reply is being spoken, another failed:
\* the transcript holds both user Turns and one assistant Turn.
C6_Witness ==
    /\ send[1].pc = "ok" /\ utt[1] = "speaking" /\ isSpeaking
    /\ send[2].pc = "failed"
    /\ Count(messages, "user", Len(messages)) = 2
    /\ Count(messages, "assistant", Len(messages)) = 1

\* C8: immediately after clearChat (the only step that shortens the
\* transcript) the transcript and the error text are empty, no utterance is
\* queued or spoken and isSpeaking is false.
C8_ClearEmptiesAndSilences ==
    [][ (ClearChat \/ Len(messages') < Len(messages))
        => /\ messages' = <<>>
           /\ error' = NoError
           /\ ~PlaybackLive(utt')
           /\ isSpeaking' = FALSE ]_vars

\* The transcript was cleared while a reply was being spoken.
C8_Witness ==
    /\ messages = <<>> /\ error = NoError /\ ~isSpeaking
    /\ \E k \in Turns : send[k].pc = "ok" /\ utt[k] = "cancelled"

\* Session k delivered an empty or white-space-only transcript.
BlankResult(k) == rec[k].st = "resulted" /\ ~Truthy(Trim(rec[k].transcript))

\* C9: a result whose transcript is empty or white space creates no Turn and
\* sends no completion request; the only event left for that session is
\* onend, which is enabled and takes the controller out of Listening.
C9_BlankResultDiscarded ==
    [][ \A k \in Turns :
          /\ (ResultDelivered(k) /\ ~Truthy(Trim(rec'[k].transcript)))
             => UNCHANGED <<messages, send, isProcessing, isSearching, error>>
          /\ BlankResult(k) => ENABLED RecOnEnd(k)
          /\ (BlankResult(k) /\ rec'[k] # rec[k])
             => (rec'[k].st = "ended" /\ isListening' = FALSE /\ send'[k].pc = "none")
      ]_vars

\* A white-space-only result was delivered and nothing was created.
C9_Witness ==
    \E k \in Turns :
        /\ BlankResult(k) /\ rec[k].transcript # <<>>
        /\ send[k].pc = "none" /\ messages = <<>> /\ ~isProcessing

\* C10: the listening timeout moves the controller to Idle with the timeout
\* error, and once it has fired the stopped capture creates no Turn.
C10_TimeoutEndsCapture ==
    [][ /\ ListenTimeout => (isListening' = FALSE /\ error' = ErrTimeout)
        /\ \A k \in Turns :
              (k \in stopReq /\ error = ErrTimeout /\ ResultDelivered(k))
              => messages' = messages
      ]_vars

\* A step in which session k reports a recognition error.
ErrorDelivered(k) == rec[k].st \in {"starting", "active"} /\ rec'[k].st = "errored"

\* C11: a recognition error takes the controller out of Listening, shows the
\* error text carrying the code the browser reported, appends no Turn and
\* starts no completion.
C11_RecognitionErrorToIdle ==
    [][ \A k \in Turns :
          ErrorDelivered(k)
          => /\ isListening' = FALSE
             /\ error' = ErrRecognition(rec'[k].code)
             /\ rec'[k].code \in RecErrorCodes
             /\ UNCHANGED <<messages, send, isProcessing, isSearching>>
      ]_vars

\* A session that was listening reported "not-allowed".
C11_Witness ==
    \E k \in Turns :
        /\ rec[k].st = "errored" /\ rec[k].code = "not-allowed"
        /\ error = ErrRecognition("not-allowed")
        /\ ~isListening /\ send[k].pc = "none" /\ messages = <<>>

\* A step in which activation k of sendMessage ends in its catch block.
CompletionFailed(k) == k \in InFlight /\ send'[k].pc = "failed"

\* C12: when the completion call fails (the request rejects, the status is
\* not a success, the payload carries an error or cannot be read), that step
\* clears isProcessing and isSearching and sets a non-empty error text, and it
\* appends no Turn and speaks nothing; a non-success answer shows the error
\* of its body, or the status when the body has none.
C12_CompletionFailureToIdle ==
    [][ \A k \in Turns :
          CompletionFailed(k)
          => /\ isProcessing' = FALSE /\ isSearching' = FALSE
             /\ error' # NoError
             /\ UNCHANGED <<messages, utt, isSpeaking>>
             /\ utt'[k] = "none"
             /\ send[k].pc = "errBody"
                => error' \in (BodyErrors \ {<<>>}) \cup {ErrHttp(send[k].status)}
      ]_vars

\* The route answered 503 with an error body: the user Turn stands alone and
\* the body's text is shown.
C12_Witness ==
    \E k \in Turns :
        /\ send[k].pc = "failed" /\ utt[k] = "none"
        /\ error = <<"Failed to get AI response">>
        /\ ~isProcessing /\ ~isSearching /\ ~isSpeaking
        /\ Len(messages) = 1 /\ messages[1].role = "user"

----------------------------------------------------------------------------
\* Properties of the API routes.

\* The handler is waiting for searchWikipedia.
LookupPcs == {"lookup", "wikiSearch", "wikiSummary"}

\* A step in which searchWikipedia returns to the handler.
LookupResolved == srv.pc \in LookupPcs /\ srv'.pc \notin LookupPcs

\* The system message of the completion request holds the bare base prompt.
Unaugmented(s) == s.request.messages[1].text = <<BasePrompt>>

\* C13: for an utterance the classifier accepts, the step in which the
\* lookup resolves, whatever its outcome, sends the completion request and
\* nothing else; when the search had zero hits or the route had no result the
\* lookup result is null and the system prompt is the base prompt; and while
\* the lookup is pending some resolution is always possible.
C13_LookupAlwaysProceeds ==
    [][ /\ LookupResolved
           => /\ srv.needs
              /\ srv'.pc = "complete"
              /\ srv'.calls = Append(srv.calls, "completion")
              /\ srv'.request.messages[2] = [role |-> "user", text |-> srv.message]
              /\ (srv'.route.results = <<>> \/ srv'.searchOut.hits = <<>>)
                 => (srv'.searchResult = <<>> /\ Unaugmented(srv'))
        /\ srv.pc \in LookupPcs => ENABLED NextRoutes
      ]_vars

\* A search with zero hits, followed by the completion request with the
\* base prompt.
C13_Witness ==
    /\ srv.pc = "complete" /\ srv.needs
    /\ srv.searchOut = [kind |-> "json", status |-> 200, hits |-> <<>>]
    /\ srv.calls = <<"search-wikipedia", "wiki-search", "completion">>
    /\ Unaugmented(srv)

\* C14: while the turn of an utterance the classifier rejects is being
\* processed, isSearching is never true.
C14_NoSearchingWithoutMarker ==
    \A k \in Turns :
        (k \in InFlight /\ rec[k].st = "resulted" /\ ~needsSearch(rec[k].transcript))
        => ~isSearching

\* Every flag of the controller is false.
AllFlagsFalse == ~isListening /\ ~isProcessing /\ ~isSearching /\ ~isSpeaking

\* The transcript is one user Turn with a non-blank text followed by one
\* assistant Turn.
UserThenAssistant ==
    /\ Len(messages) = 2
    /\ messages[1].role = "user" /\ Truthy(Trim(messages[1].text))
    /\ messages[2].role = "assistant" /\ Truthy(messages[2].text)

\* The first turn is the only one so far.
FirstTurnOnly == \A k \in Turns : k # 1 => rec[k].st = "none"

\* The first turn got its reply, its playback and its session have ended.
FirstTurnDone ==
    /\ FirstTurnOnly
    /\ rec[1].st = "ended" /\ send[1].pc = "ok" /\ utt[1] = "ended"

\* C15: a first turn started from Idle with an empty transcript, whose
\* utterance is not blank and whose completion succeeds, has a transcript of
\* exactly (user, assistant) from the reply on, and once the reply has arrived
\* the controller reaches Idle with its four flags false, the playback ended.
C15_HappyTurnEndsIdle ==
    /\ [](FirstTurnOnly /\ send[1].pc = "ok" => UserThenAssistant)
    /\ [](FirstTurnDone => AllFlagsFalse)
    /\ (FirstTurnOnly /\ send[1].pc = "ok" /\ utt[1] # "none")
       ~> (FirstTurnDone /\ AllFlagsFalse /\ UserThenAssistant)

\* The reply was spoken to its end.
C15_Witness == FirstTurnDone /\ AllFlagsFalse /\ UserThenAssistant /\ error = NoError

\* C16: a request whose body is empty, or has no message, is answered with
\* status 400 and the error "Message missing", and no lookup or completion
\* call was made for it.
C16_MissingMessageIs400 ==
    (srv.pc = "done" /\ (srv.body.kind = "empty" \/ ~Truthy(MessageOf(srv.body))))
    => /\ srv.resp = JsonResponse(400, "Message missing", "")
       /\ srv.calls = <<>>

\* The handler has answered a request whose completion call got a
\* non-success status.
UpstreamFailed ==
    srv.pc = "done" /\ srv.up.status \in UpstreamStatuses /\ ~ResOk(srv.up.status)

RequestFailed(o) ==
    \/ o.kind \in {"reject", "malformed"}
    \/ o.kind = "json" /\ ~ResOk(o.status)

\* C18: when the search request or the summary request has failed, the
\* lookup result is null, the completion request is sent all the same and
\* its system prompt is not augmented.
C18_LookupFailsSoft ==
    (srv.pc \notin LookupPcs /\ (RequestFailed(srv.searchOut) \/ RequestFailed(srv.summaryOut)))
    => /\ srv.searchResult = <<>>
       /\ srv.calls[Len(srv.calls)] = "completion"
       /\ Unaugmented(srv)

\* Some marker phrase occurs in u at some position, letter for letter once
\* each letter of u is lowercased.
ContainsMarker(u) ==
    \E marker \in searchKeywords, p \in 1..Len(u) :
        /\ p + Len(marker) - 1 <= Len(u)
        /\ \A j \in 1..Len(marker) : ToLowerCaseChar(u[p + j - 1]) = marker[j]

\* C19: the classifier's answer for a message is true exactly when the
\* lowercased message contains a marker phrase as a substring, word
\* boundaries or not; it is true for "Tell me about gravity" and false for
\* "I like pizza".
C19_ClassifierIsSubstringMatch ==
    (srv.pc \notin {"idle", "recv"} /\ Truthy(srv.message))
    => /\ srv.needs <=> ContainsMarker(srv.message)
       /\ srv.message = TellMeAboutGravity => srv.needs
       /\ srv.message = ILikePizza => ~srv.needs

\* "Tell me about gravity" was classified as needing a search.
C19_Witness ==
    srv.pc = "lookup" /\ srv.message = TellMeAboutGravity /\ srv.needs

\* A step in which a cancelled utterance k delivers its late end or error
\* event while another utterance is being spoken.
LateEventDuringPlayback(k) ==
    /\ utt[k] = "cancelled" /\ utt'[k] = "ended"
    /\ \E j \in Turns : j # k /\ utt[j] = "speaking" /\ utt'[j] = "speaking"

\* C20: a step that ends the playback (nothing is being spoken or queued
\* after it) leaves isSpeaking false, and the late event of a cancelled
\* utterance does not change isSpeaking while another utterance is being
\* spoken.
C20_SpeakingTracksPlayback ==
    [][ /\ (SynthSpeaking(utt) /\ ~PlaybackLive(utt')) => isSpeaking' = FALSE
        /\ \A k \in Turns : LateEventDuringPlayback(k) => isSpeaking' = isSpeaking
      ]_vars

\* Completion requests the current call has sent.
CompletionCalls(s) == Cardinality({ i \in DOMAIN s.calls : s.calls[i] = "completion" })

\* The current call has got past the lookup with a message.
PastLookup(s) == s.pc \in {"complete", "readOk", "readErr", "done"} /\ Truthy(s.message)

\* The call before sent a completion request for the same utterance and the
\* same lookup result as the current call.
SameInputsAsBefore(s) ==
    /\ s.prev.request.messages # <<>>
    /\ s.prev.message = s.message
    /\ s.prev.searchResult = s.searchResult

\* C21: a call never sends more than one completion request, and exactly one
\* once it is past the lookup with a message, whatever the upstream then
\* answers; the request names the fixed model and holds exactly a system
\* message and a user message with the utterance as it arrived; and a call
\* with the same utterance and lookup result as the call before sends the
\* same request.
C21_OneStatelessRequest ==
    /\ CompletionCalls(srv) <= 1
    /\ PastLookup(srv) <=> CompletionCalls(srv) = 1
    /\ CompletionCalls(srv) = 1
       => /\ srv.request.model = "anthropic/claude-sonnet-4"
          /\ Len(srv.request.messages) = 2
          /\ srv.request.messages[1].role = "system"
          /\ srv.request.messages[1].text[1] = BasePrompt
          /\ srv.request.messages[2] = [role |-> "user", text |-> srv.body.message]
    /\ (CompletionCalls(srv) = 1 /\ SameInputsAsBefore(srv))
       => srv.request = srv.prev.request

\* Two calls in a row for "Tell me about gravity" with the same Wikipedia
\* result, the second after the first one's upstream failure.
C21_Witness ==
    /\ srv.pc = "done" /\ srv.up.status = 503
    /\ srv.message = TellMeAboutGravity
    /\ srv.searchResult # <<>>
    /\ SameInputsAsBefore(srv)
    /\ srv.request = srv.prev.request
    /\ CompletionCalls(srv) = 1

\* The first choice of the payload has no message content, or an empty one.
NoContent(content) == ~(content.present /\ Truthy(content.text))

\* C22: a successful payload without message content does not fail the
\* turn: that step completes the activation, appends an assistant Turn with
\* the text "No reply received" and hands that text to speakText, which queues
\* it when the browser has speech synthesis.  After every step, no Turn of
\* the transcript has an empty text.
C22_SentinelReply ==
    [][ /\ \A k \in Turns, c \in Contents :
              (send[k].pc = "okBody" /\ NoContent(c) /\ OkBodyReply(k, c))
              => /\ send'[k].pc = "ok"
                 /\ messages' = Append(messages, [role |-> "assistant",
                                                  text |-> NoReplyReceived])
                 /\ IF synthSupported
                        THEN utt'[k] = "pending" /\ error' = error
                        ELSE utt'[k] = "none" /\ error' = ErrTtsUnsupported
        /\ \A i \in 1..Len(messages') : messages'[i].text # <<>>
      ]_vars

\* The sentinel was appended after a user Turn and is being spoken.
C22_Witness ==
    \E k \in Turns :
        /\ send[k].pc = "ok" /\ utt[k] = "speaking" /\ isSpeaking
        /\ Len(messages) = 2
        /\ messages[2] = [role |-> "assistant", text |-> NoReplyReceived]

\* Transcript b is transcript a with exactly one Turn added at the end.
ExtendsByOne(a, b) == Len(b) = Len(a) + 1 /\ SubSeq(b, 1, Len(a)) = a

\* C23: every step other than clearChat leaves the transcript as it is or
\* adds exactly one Turn at its end, whichever callbacks interleave.
C23_AppendOnly ==
    [][ \/ messages' = messages
        \/ ExtendsByOne(messages, messages')
        \/ ClearChat
      ]_vars

\* The results and replies of two overlapping turns interleaved.
C23_Witness ==
    /\ Len(messages) = 4
    /\ messages[1].role = "user" /\ messages[2].role = "user"
    /\ messages[3].role = "assistant" /\ messages[4].role = "assistant"
    /\ messages[3].text # messages[4].text

\* Recognition sessions that were started and have not delivered their
\* result, their error or their end.
LiveCaptures == { k \in Turns : rec[k].st \in {"starting", "active"} }

\* Utterances that are queued or being spoken.
LivePlaybacks == { k \in Turns : utt[k] \in {"pending", "speaking"} }

\* C24: at most one recognition session and at most one utterance are live
\* at any time.
C24_OneCaptureOnePlayback ==
    Cardinality(LiveCaptures) <= 1 /\ Cardinality(LivePlaybacks) <= 1

\* C25: isSearching implies isProcessing, and isProcessing is true while
\* any sendMessage activation is in flight.
C25_FlagsTrackRequests ==
    /\ isSearching => isProcessing
    /\ InFlight # {} => isProcessing

\* ---------------------------------------------------------------------------
\* While a timer is armed, the session that armed it has started and has
\* neither ended nor failed.
TimerOwnerLive ==
    timerFor # 0 => rec[timerFor].st \in {"active", "resulted"}

\* C26: the listening timeout belongs to the capture that armed it.  No timer
\* stays armed for a session that has ended or failed (so an ended capture
\* never has its timeout error shown), and a step of the timer stops the
\* session it was armed for and no other: the handle it calls stop() on is the
\* session whose onstart armed it.
C26_TimerTiedToCapture ==
    [][ /\ TimerOwnerLive'
        /\ ListenTimeout => recognitionRef = timerFor ]_vars

====
